---- MODULE Spec2Model ----
(***************************************************************************)
(* The tool registry of the pyodide runtime (runt_runtime_registry.py):    *)
(* FunctionRegistry (two insertion-ordered dicts, __functions and          *)
(* __schemas), generate_function_schema, extract_arguments,                *)
(* FunctionRegistry.call and the module-level wrapper run_registered_tool, *)
(* run as coroutines on one cooperative event loop.                        *)
(***************************************************************************)
EXTENDS Integers, Sequences, FiniteSets, TLC

\* ------------------------------------------------------------------ bounds
\* number of register_function operations in a behaviour of SpecRegistry
MaxRegs == 3
\* number of tool() registrations in a behaviour of Spec
MaxTools == 2
\* number of run_registered_tool calls dispatched in a behaviour
MaxCalls == 2
\* number of setup_interrupt_patches calls in a behaviour of SpecPatches
MaxSetups == 3
\* number of time.sleep and input calls recorded in a behaviour of SpecPatches
MaxUses == 2
\* longest sleep, in chunks of 0.1 s
MaxChunks == 2
\* number of bootstrap_micropip_packages coroutines in a behaviour of SpecBoot
MaxBoots == 2
\* number of background installs whose end a behaviour of SpecBoot follows
MaxFinished == 2

\* Python's None
None == "None"

\* ------------------------------------------------- exception class hierarchy
\* class -> direct base class (registry.py 68-83, 380-383; builtins otherwise)
BaseOf(cls) ==
    CASE cls = "FunctionArgumentError" -> "FunctionError"
      [] cls = "UnknownFunctionError" -> "FunctionError"
      [] cls = "FunctionError" -> "Exception"
      [] cls = "ToolNotFoundError" -> "Exception"
      [] cls = "ValueError" -> "Exception"
      [] cls = "JSONDecodeError" -> "ValueError"
      [] cls = "ValidationError" -> "ValueError"
      [] cls = "TypeError" -> "Exception"
      [] cls = "AttributeError" -> "Exception"
      [] cls = "PydanticInvalidForJsonSchema" -> "Exception"
      [] cls = "Exception" -> "BaseException"
      [] OTHER -> "object"

\* isinstance(e, cls), as an except clause tests it
RECURSIVE IsSubclass(_, _)
IsSubclass(sub, cls) ==
    IF sub = cls THEN TRUE
    ELSE IF sub = "object" THEN FALSE
    ELSE IsSubclass(BaseOf(sub), cls)

\* an exception object: its class and str(e)
Exc(cls, msg) == [cls |-> cls, msg |-> msg]

\* ------------------------------------------------------ insertion-ordered dict
\* A Python dict is a sequence of (key, value) items in insertion order.
DictHas(d, key) == \E i \in 1..Len(d) : d[i].k = key

\* dict.get(key): the value, or None
DictGet(d, key) ==
    IF DictHas(d, key)
    THEN d[CHOOSE i \in 1..Len(d) : d[i].k = key].v
    ELSE None

\* an assignment that adds an item and leaves the old item of the key in place
DictSetAppend(d, key, value) == Append(d, [k |-> key, v |-> value])

\* an assignment that moves an existing key to the end
DictSetMoveToEnd(d, key, value) ==
    Append(SelectSeq(d, LAMBDA item : item.k # key), [k |-> key, v |-> value])

\* d[key] = value: an existing key keeps its position, a new key goes last
DictSet(d, key, value) ==
    IF DictHas(d, key)
    THEN [i \in 1..Len(d) |-> IF d[i].k = key THEN [k |-> key, v |-> value] ELSE d[i]]
    ELSE Append(d, [k |-> key, v |-> value])

\* list(d.values()) and list(d.keys())
DictValues(d) == [i \in 1..Len(d) |-> d[i].v]
DictKeys(d) == [i \in 1..Len(d) |-> d[i].k]

\* ------------------------------------------------------- the callables (inputs)
\* A parameter of a signature: its name, its annotation ("empty" is
\* inspect.Parameter.empty) and whether it has a default value.
Param(name, annotation, hasDefault) ==
    [name |-> name, annotation |-> annotation, hasDefault |-> hasDefault]

\* The function objects handed to register / called through the registry.
\* name is __name__, doc is __doc__, isAsync is asyncio.iscoroutinefunction,
\* body says what running the function does with its arguments.
Fn(id) ==
    CASE id = "f_add" ->
           [name |-> "add", doc |-> "Add two numbers", isAsync |-> FALSE,
            params |-> <<Param("a", "int", FALSE), Param("b", "int", FALSE)>>,
            body |-> "sum"]
      [] id = "f_add2" ->
           [name |-> "add", doc |-> "Add through a helper tool", isAsync |-> TRUE,
            params |-> <<Param("a", "int", FALSE), Param("b", "Optional[int]", FALSE)>>,
            body |-> "raise UnknownFunctionError"]
      [] id = "f_job" ->
           [name |-> "job", doc |-> "Await the job and report", isAsync |-> TRUE,
            params |-> <<>>,
            body |-> "text"]
      [] id = "f_job2" ->
           [name |-> "job", doc |-> "A job that always fails", isAsync |-> FALSE,
            params |-> <<>>,
            body |-> "raise ValueError"]
      [] id = "f_lambda" ->
           [name |-> "<lambda>", doc |-> "Anonymous", isAsync |-> FALSE,
            params |-> <<>>,
            body |-> "text"]
      [] id = "f_nodoc" ->
           [name |-> "add", doc |-> None, isAsync |-> FALSE,
            params |-> <<Param("a", "int", FALSE)>>,
            body |-> "text"]
      [] id = "f_blankdoc" ->
           [name |-> "job", doc |-> "", isAsync |-> FALSE,
            params |-> <<>>,
            body |-> "text"]
      [] id = "f_noann" ->
           [name |-> "job", doc |-> "Unannotated", isAsync |-> FALSE,
            params |-> <<Param("a", "empty", FALSE)>>,
            body |-> "text"]
      [] id = "f_badtype" ->
           [name |-> "job", doc |-> "Takes a widget", isAsync |-> FALSE,
            params |-> <<Param("w", "Widget", FALSE)>>,
            body |-> "text"]
      [] id = "f_greet" ->
           [name |-> "greet", doc |-> "Greet a number of times", isAsync |-> FALSE,
            params |-> <<Param("a", "int", FALSE), Param("b", "Optional[str]", FALSE),
                         Param("c", "str", TRUE)>>,
            body |-> "text"]
      [] id = "f_pick" ->
           [name |-> "pick", doc |-> "Pick by index or by key", isAsync |-> FALSE,
            params |-> <<Param("v", "Union[int, str]", FALSE)>>,
            body |-> "text"]
      [] id = "f_move" ->
           [name |-> "move", doc |-> "Move to a point", isAsync |-> FALSE,
            params |-> <<Param("p", "Point", FALSE)>>,
            body |-> "text"]
      [] id = "f_area" ->
           [name |-> "area", doc |-> "Area of the shape, scaled", isAsync |-> FALSE,
            params |-> <<Param("self", "empty", FALSE), Param("a", "int", FALSE)>>,
            body |-> "text"]
      [] id = "f_tags" ->
           [name |-> "tags", doc |-> "The set of tags", isAsync |-> FALSE,
            params |-> <<>>,
            body |-> "return set"]
      [] id = "f_grid" ->
           [name |-> "grid", doc |-> "Cells keyed by (row, column)", isAsync |-> FALSE,
            params |-> <<>>,
            body |-> "return dict keyed by tuple"]
      [] OTHER ->
           [name |-> "", doc |-> "Nameless", isAsync |-> FALSE,
            params |-> <<>>,
            body |-> "text"]

\* the callables a registration can succeed for, and those it must refuse
Registrable == {"f_add", "f_add2", "f_job", "f_job2"}
Unregistrable ==
    {"f_lambda", "f_nodoc", "f_blankdoc", "f_noann", "f_badtype", "f_noname"}
\* callables that show how a signature becomes a schema
SchemaCases == {"f_greet", "f_pick"}
CallableIds == Registrable \cup Unregistrable \cup SchemaCases

\* names a caller may ask for
ToolNames == {"add", "job", "nonexistent"}

\* the tools of the result and payload checks, and the names they go by
ToolBox == {"f_add", "f_add2", "f_job", "f_tags", "f_grid", "f_move", "f_area"}
ToolBoxNames == {Fn(fid).name : fid \in ToolBox}

\* results of a Python call: a returned value, or a raised exception
Ok(v) == [ok |-> TRUE, value |-> v]
Raise(e) == [ok |-> FALSE, exc |-> e]

\* ------------------------------------------------------------ schema derivation
\* The explicit parameter_schema a registrant may pass: None, or a dict.
\* A schema dict is a record: has is the set of keys present.
SchemaDict(has, title, properties, required) ==
    [has |-> has, title |-> title, properties |-> properties, required |-> required]

\* the override {"type": "object", "title": "Args"}
BareOverride == SchemaDict({"type", "title"}, "Args", <<>>, <<>>)

ParameterSchemas == {None, "bare"}

\* pydantic's JSON type of an annotation; Optional[X] was unwrapped before.
\* A Union of several types has a schema too: anyOf over its arms.
JsonType(annotation) ==
    CASE annotation = "int" -> "integer"
      [] annotation = "str" -> "string"
      [] annotation = "bool" -> "boolean"
      [] annotation = "float" -> "number"
      [] annotation = "list" -> "array"
      [] annotation = "dict" -> "object"
      [] annotation = "Union[int, str]" -> "anyOf"
      [] annotation = "Point" -> "object"
      [] OTHER -> "unsupported"

\* is_optional_type / lines 147-149: Union of two arms, one of them NoneType
IsOptionalType(annotation) == annotation \in {"Optional[int]", "Optional[str]"}

\* line 150: the arm that is not NoneType
NonNoneArm(annotation) ==
    CASE annotation = "Optional[int]" -> "int"
      [] annotation = "Optional[str]" -> "str"
      [] OTHER -> annotation

\* a field that is optional only when the parameter has a default of its own
FieldOfDeclaredDefault(param) ==
    [name |-> param.name,
     annotation |-> NonNoneArm(param.annotation),
     default |-> IF param.hasDefault THEN "default" ELSE "..."]

\* One field of the model: (type_annotation, default); default "..." is required
FieldOf(param) ==
    [name |-> param.name,
     annotation |-> NonNoneArm(param.annotation),
     default |-> IF IsOptionalType(param.annotation) THEN None
                 ELSE IF param.hasDefault THEN "default"
                 ELSE "..."]

\* extract_model_from_function: the fields of the pydantic model, in order,
\* skipping self; raises on the first parameter without an annotation
RECURSIVE ExtractFields(_, _, _)
ExtractFields(funcName, params, fields) ==
    IF params = <<>> THEN Ok(fields)
    ELSE IF Head(params).name = "self"
         THEN ExtractFields(funcName, Tail(params), fields)
    ELSE IF Head(params).annotation = "empty"
         THEN Raise(Exc("Exception",
                        <<Head(params).name, " parameter of ", funcName,
                          " must have a JSON-serializable type annotation">>))
    ELSE ExtractFields(funcName, Tail(params), Append(fields, FieldOf(Head(params))))

\* an extraction that accepts a parameter without annotation as anything
ExtractModelLenient(funcName, function) ==
    Ok([name |-> function.name,
        fields |-> [i \in 1..Len(function.params) |->
                      IF function.params[i].annotation = "empty"
                      THEN [name |-> function.params[i].name, annotation |-> "dict",
                            default |-> "..."]
                      ELSE FieldOf(function.params[i])]])

ExtractModelFromFunction(funcName, function) ==
    LET r == ExtractFields(funcName, function.params, <<>>)
    IN  IF r.ok THEN Ok([name |-> function.name, fields |-> r.value]) ELSE r

\* model.model_json_schema(): title, type, properties (each with a title),
\* and required only when some field has no default; a field type that has
\* no JSON schema makes it raise
ModelJsonSchema(model) ==
    LET props == [i \in 1..Len(model.fields) |->
                    [name |-> model.fields[i].name,
                     has |-> {"type", "title"} \cup
                             (IF model.fields[i].default = "..." THEN {} ELSE {"default"}),
                     type |-> JsonType(model.fields[i].annotation)]]
        req == SelectSeq(model.fields, LAMBDA f : f.default = "...")
        reqNames == [i \in 1..Len(req) |-> req[i].name]
    IN  IF \E i \in 1..Len(props) : props[i].type = "unsupported"
        THEN Raise(Exc("PydanticInvalidForJsonSchema",
                       <<"Cannot generate a JsonSchema for an arbitrary type">>))
        ELSE Ok(SchemaDict({"type", "title", "properties"} \cup
                             (IF reqNames = <<>> THEN {} ELSE {"required"}),
                           model.name, props, reqNames))

\* a normalisation that drops the titles and adds nothing
NormalizeTitlesOnly(parameters) ==
    SchemaDict(parameters.has \ {"title"},
               "",
               [i \in 1..Len(parameters.properties) |->
                  [parameters.properties[i] EXCEPT !.has = @ \ {"title"}]],
               parameters.required)

\* lines 189-198: add missing properties / required, drop every title
Normalize(parameters) ==
    SchemaDict((parameters.has \cup {"properties", "required"}) \ {"title"},
               "",
               [i \in 1..Len(parameters.properties) |->
                  [parameters.properties[i] EXCEPT !.has = @ \ {"title"}]],
               parameters.required)

\* generate_function_schema(function, parameter_schema)
GenerateFunctionSchema(function, parameter_schema) ==
    IF function.name = "" THEN
        Raise(Exc("Exception", <<"Function must have a name">>))
    ELSE IF function.name = "<lambda>" THEN
        Raise(Exc("Exception", <<"Lambdas cannot be registered. Use def instead.">>))
    ELSE IF function.doc = None \/ function.doc = "" THEN
        Raise(Exc("Exception", <<"Only functions with docstrings can be registered">>))
    ELSE IF parameter_schema = "bare" THEN
        Ok([name |-> function.name, description |-> function.doc,
            parameters |-> Normalize(BareOverride)])
    ELSE
        LET model == ExtractModelFromFunction(function.name, function)
            parameters == ModelJsonSchema(model.value)
        IN  IF ~model.ok THEN model
            ELSE IF ~parameters.ok THEN parameters
            ELSE Ok([name |-> function.name, description |-> function.doc,
                     parameters |-> Normalize(parameters.value)])

\* ------------------------------------------------------------ call payloads
\* The arguments string of a call: None (absent), "" or JSON text.
Payloads == {None, "{\"a\":2}", "{\"a\":2,\"b\":3}", "[1]", "{bad"}

\* the payloads of the one-call checks: the empty ones too
AllPayloads ==
    Payloads \cup {"", "{}", "{\"p\":{}}", "{\"p\":{\"x\":\"far\"}}", "{\"p\":{\"x\":1}}"}

\* decoded JSON scalars, as Python values
JNull == [t |-> "NoneType", v |-> 0, items |-> <<>>]
JInt(n) == [t |-> "int", v |-> n, items |-> <<>>]
JStr == [t |-> "str", v |-> 0, items |-> <<>>]
\* a decoded JSON object inside the arguments: its items
JObj(items) == [t |-> "dict", v |-> 0, items |-> items]

\* a decoded JSON document: its Python type and, for a dict, its items
JDoc(t, items) == [t |-> t, items |-> items]
EmptyItems == [key \in {} |-> JNull]

\* json.loads(text): the decoded value, or JSONDecodeError
JsonLoads(text) ==
    CASE text = "{}" -> Ok(JDoc("dict", EmptyItems))
      [] text = "{\"a\":2}" -> Ok(JDoc("dict", [key \in {"a"} |-> JInt(2)]))
      [] text = "{\"a\":2,\"b\":3}" ->
           Ok(JDoc("dict", [key \in {"a", "b"} |-> IF key = "a" THEN JInt(2) ELSE JInt(3)]))
      [] text = "{\"a\":2,\"b\":null}" ->
           Ok(JDoc("dict", [key \in {"a", "b"} |-> IF key = "a" THEN JInt(2) ELSE JNull]))
      [] text = "{\"p\":{}}" ->
           Ok(JDoc("dict", [key \in {"p"} |-> JObj(EmptyItems)]))
      [] text = "{\"p\":{\"x\":\"far\"}}" ->
           Ok(JDoc("dict", [key \in {"p"} |-> JObj([k \in {"x"} |-> JStr])]))
      [] text = "{\"p\":{\"x\":1}}" ->
           Ok(JDoc("dict", [key \in {"p"} |-> JObj([k \in {"x"} |-> JInt(1)])]))
      [] text = "[1]" -> Ok(JDoc("list", EmptyItems))
      [] text = "5" -> Ok(JDoc("int", EmptyItems))
      [] text = "\"s\"" -> Ok(JDoc("str", EmptyItems))
      [] text = "true" -> Ok(JDoc("bool", EmptyItems))
      [] text = "null" -> Ok(JDoc("NoneType", EmptyItems))
      [] OTHER -> Raise(Exc("JSONDecodeError", <<"Expecting property name">>))

\* dict.get(key) on the decoded arguments
ItemsGet(items, key) == IF key \in DOMAIN items THEN items[key] ELSE JNull

ParamNames(function) == {function.params[i].name : i \in 1..Len(function.params)}

\* line 368: the annotation is a class derived from pydantic's BaseModel;
\* Point is class Point(BaseModel) with the one field x: int
IsBaseModel(annotation) == annotation = "Point"

\* param_type.model_validate(arg_value), line 369: the model instance, or
\* pydantic's ValidationError
ModelValidate(param_type, arg_value) ==
    IF arg_value.t # "dict" THEN
        Raise(Exc("ValidationError",
                  <<"1 validation error for ", param_type,
                    "Input should be a valid dictionary or instance of ", param_type>>))
    ELSE IF "x" \notin DOMAIN arg_value.items THEN
        Raise(Exc("ValidationError",
                  <<"1 validation error for ", param_type, "x", "Field required">>))
    ELSE IF arg_value.items["x"].t # "int" THEN
        Raise(Exc("ValidationError",
                  <<"1 validation error for ", param_type, "x",
                    "Input should be a valid integer">>))
    ELSE Ok([t |-> param_type, v |-> arg_value.items["x"].v, items |-> <<>>])

\* lines 360-371 for one parameter: the prepared value, or what raises
PrepareArgument(param, items) ==
    IF IsBaseModel(param.annotation)
    THEN ModelValidate(param.annotation, ItemsGet(items, param.name))
    ELSE Ok(ItemsGet(items, param.name))

\* lines 352-373: what extract_arguments does with the decoded payload
PrepareArguments(name, function, loaded) ==
    IF ~loaded.ok THEN
        Raise(Exc("FunctionArgumentError",
                  <<"Invalid Function call on ", name,
                    ". Arguments must be a valid JSON object">>))
    ELSE IF function.params # <<>> /\ loaded.value.t # "dict" THEN
        \* dict_arguments.get on a list, number, string, bool or None
        Raise(Exc("AttributeError",
                  <<"'", loaded.value.t, "' object has no attribute 'get'">>))
    ELSE
        LET values == [i \in 1..Len(function.params) |->
                         PrepareArgument(function.params[i], loaded.value.items)]
        IN  IF \E i \in 1..Len(values) : ~values[i].ok
            THEN values[CHOOSE i \in 1..Len(values) :
                          ~values[i].ok /\ \A j \in 1..(i - 1) : values[j].ok]
            ELSE Ok([n \in ParamNames(function) |->
                       values[CHOOSE i \in 1..Len(values) :
                                function.params[i].name = n].value])

\* an extract_arguments that decodes every payload that is given, "" too
ExtractArgumentsDecodingEmpty(name, function, arguments) ==
    PrepareArguments(name, function,
                     IF arguments # None
                     THEN JsonLoads(arguments)
                     ELSE Ok(JDoc("dict", EmptyItems)))

\* extract_arguments(name, function, arguments): an absent or empty payload
\* stands for no arguments (line 346), any other is decoded
ExtractArguments(name, function, arguments) ==
    PrepareArguments(name, function,
                     IF arguments # None /\ arguments # ""
                     THEN JsonLoads(arguments)
                     ELSE Ok(JDoc("dict", EmptyItems)))

\* ------------------------------------------------------------ running a callable
\* a Python return value: a str, an int, or another object (s is its str())
PyStr(s) == [py |-> "str", s |-> s, n |-> 0]
PyInt(n) == [py |-> "int", s |-> "", n |-> n]
PyObj(type, s) == [py |-> type, s |-> s, n |-> 0]

\* function(**prepared_arguments): what the body returns or raises
RunBody(function, prepared) ==
    CASE function.body = "sum" ->
           IF \E n \in DOMAIN prepared : prepared[n].t = "NoneType"
           THEN Raise(Exc("TypeError",
                          <<"unsupported operand type(s) for +: 'int' and 'NoneType'">>))
           ELSE Ok(PyInt(prepared["a"].v + prepared["b"].v))
      [] function.body = "raise ValueError" ->
           Raise(Exc("ValueError", <<"boom went wrong">>))
      [] function.body = "raise UnknownFunctionError" ->
           Raise(Exc("UnknownFunctionError", <<"Function helper is not registered">>))
      [] function.body = "return set" -> Ok(PyObj("set", "{1, 2}"))
      [] function.body = "return dict keyed by tuple" ->
           Ok(PyObj("dict[tuple]", "{(0, 0): 1}"))
      [] OTHER -> Ok(PyStr("pong"))

\* json.dumps(result, default=str): default is called for a value that has
\* no JSON form, never for a dict key; a key that is not a str, int, float,
\* bool or None raises TypeError
JsonDumps(result) ==
    CASE result.py = "int" -> Ok(ToString(result.n))
      [] result.py = "set" -> Ok("\"{1, 2}\"")
      [] OTHER ->
           Raise(Exc("TypeError",
                     <<"keys must be str, int, float, bool or None, not tuple">>))

\* lines 431-432: a str result as it is, anything else through json.dumps
NormalizeResult(result) ==
    IF result.py = "str" THEN Ok(result.s) ELSE JsonDumps(result)

\* traceback.format_exc() for the exception being handled
FormatExc(e) == <<"Traceback (most recent call last):", e.cls, ": ">> \o e.msg

\* the except clauses of run_registered_tool, in order: what it raises for e
RunRegisteredToolExcept(toolName, e) ==
    IF IsSubclass(e.cls, "UnknownFunctionError") THEN
        Exc("ToolNotFoundError", <<"Tool ", toolName, " not found">>)
    ELSE IF IsSubclass(e.cls, "FunctionArgumentError") \/ IsSubclass(e.cls, "FunctionError") THEN
        e
    ELSE IF IsSubclass(e.cls, "Exception") THEN
        Exc("Exception",
            <<"Tool '", toolName, "' execution failed with error: ">> \o e.msg
              \o <<"Python traceback:">> \o FormatExc(e))
    ELSE e

\* the outcome of one run_registered_tool call
NoExc == Exc("", <<>>)
Pending == [tag |-> "Pending", result |-> "", exc |-> NoExc]
Success(text) == [tag |-> "Success", result |-> text, exc |-> NoExc]
Failure(e) == [tag |-> "Failure", result |-> "", exc |-> e]

\* what run_registered_tool gives its caller when call() returned or raised r
OutcomeOf(toolName, r) ==
    IF ~r.ok THEN Failure(RunRegisteredToolExcept(toolName, r.exc))
    ELSE IF ~NormalizeResult(r.value).ok
    THEN Failure(RunRegisteredToolExcept(toolName, NormalizeResult(r.value).exc))
    ELSE Success(NormalizeResult(r.value).value)

\* ------------------------------------------------------------------- state
VARIABLES
    functions,   \* FunctionRegistry.__functions: name -> callable
    schemas,     \* FunctionRegistry.__schemas: name -> FunctionDefinition
    nregs,       \* register_function operations so far
    regResult,   \* the last register_function: its arguments, whether it raised, and what
    regLog,      \* history: name, callable and override of every registration that returned
    pc,          \* where each call's coroutine stands: idle, suspended or done
    call,        \* each call's toolName and kwargs_string
    function,    \* each call's local variable function (call, line 320)
    prepared,    \* each call's local variable prepared_arguments (line 323)
    outcome,     \* what run_registered_tool returned or raised for each call
    invoked,     \* the callables whose body each call has entered, in order
    path,        \* the lines of call() each call has passed, as phases
    writing,     \* the register_function that stands between lines 287 and 288
    seen,        \* what a reader last got from get, get_schema and the listing
    batch,       \* the collection last given to register_functions
    started,     \* the callable each call's name stood for when the call started
    time_sleep,      \* the function the attribute time.sleep is bound to
    builtins_input,  \* the function the attribute builtins.input is bound to
    original_sleep,  \* the module global _original_sleep
    original_input,  \* the module global _original_input
    nsetups,         \* setup_interrupt_patches calls so far
    uses,            \* what every time.sleep and input call so far did
    critical_packages_loaded,    \* the module global _critical_packages_loaded
    background_loading_started,  \* the module global _background_loading_started
    loaded_packages,             \* the module global _loaded_packages
    bpc,       \* each bootstrap coroutine: 0 not started, i awaiting the
               \* install of the i-th critical package, 5 returned
    created,   \* the background tasks made by asyncio.create_task, in order
    finished   \* the positions in created of the tasks that have ended

vars ==
    <<functions, schemas, nregs, regResult, regLog, pc, call, function, prepared,
      outcome, invoked, path, writing, seen, batch, started,
      time_sleep, builtins_input, original_sleep, original_input, nsetups, uses,
      critical_packages_loaded, background_loading_started, loaded_packages,
      bpc, created, finished>>

registryVars == <<functions, schemas, nregs, regResult, regLog>>
callVars == <<pc, call, function, prepared, outcome, invoked, path>>
\* what the steps of the registry's own operations leave alone
patchVars ==
    <<time_sleep, builtins_input, original_sleep, original_input, nsetups, uses>>
bootVars ==
    <<critical_packages_loaded, background_loading_started, loaded_packages,
      bpc, created, finished>>
otherVars == <<batch, started, patchVars, bootVars>>
restVars == <<writing, seen, otherVars>>

CallIds == 1..MaxCalls
BootIds == 1..MaxBoots

NotBuilt == [built |-> FALSE, args |-> EmptyItems]
Built(args) == [built |-> TRUE, args |-> args]

\* no register_function is under way
NoWrite == [active |-> FALSE, function |-> None, parameter_schema |-> None]

\* the descriptor a reader holds when get_schema returned None
NoDescriptor == [name |-> "", description |-> "", parameters |-> Normalize(BareOverride)]

\* nothing has been read yet
NothingSeen ==
    [name |-> None, function |-> None, hasSchema |-> FALSE, schema |-> NoDescriptor,
     listed |-> FALSE]

NoRegistration ==
    [done |-> FALSE, function |-> None, parameter_schema |-> None,
     raised |-> FALSE, exc |-> NoExc]

\* FunctionRegistry.__init__ (lines 216-221); no call has been dispatched
Init ==
    /\ functions = <<>>
    /\ schemas = <<>>
    /\ nregs = 0
    /\ regResult = NoRegistration
    /\ regLog = <<>>
    /\ pc = [c \in CallIds |-> "idle"]
    /\ call = [c \in CallIds |-> [name |-> None, arguments |-> None]]
    /\ function = [c \in CallIds |-> None]
    /\ prepared = [c \in CallIds |-> NotBuilt]
    /\ outcome = [c \in CallIds |-> Pending]
    /\ invoked = [c \in CallIds |-> <<>>]
    /\ path = [c \in CallIds |-> <<>>]
    /\ writing = NoWrite
    /\ seen = NothingSeen
    /\ batch = <<>>
    /\ started = [c \in CallIds |-> None]
    /\ time_sleep = "time.sleep"
    /\ builtins_input = "builtins.input"
    /\ original_sleep = None
    /\ original_input = None
    /\ nsetups = 0
    /\ uses = <<>>
    /\ critical_packages_loaded = FALSE
    /\ background_loading_started = FALSE
    /\ loaded_packages = {}
    /\ bpc = [b \in BootIds |-> 0]
    /\ created = <<>>
    /\ finished = {}

\* ------------------------------------------------------------- registration
\* a register_function that stores the callable before it derives the schema
RegisterFunctionEager(fns, schs, fid, parameter_schema) ==
    LET final_schema == GenerateFunctionSchema(Fn(fid), parameter_schema)
    IN  IF ~final_schema.ok
        THEN [functions |-> DictSet(fns, Fn(fid).name, fid), schemas |-> schs,
              raised |-> TRUE, exc |-> final_schema.exc]
        ELSE [functions |-> DictSet(fns, Fn(fid).name, fid),
              schemas |-> DictSet(schs, Fn(fid).name, final_schema.value),
              raised |-> FALSE, exc |-> NoExc]

\* a register_function that stores the callable and leaves the schema out
RegisterFunctionUnlisted(fns, schs, fid, parameter_schema) ==
    LET final_schema == GenerateFunctionSchema(Fn(fid), parameter_schema)
    IN  IF ~final_schema.ok
        THEN [functions |-> fns, schemas |-> schs, raised |-> TRUE, exc |-> final_schema.exc]
        ELSE [functions |-> DictSet(fns, Fn(fid).name, fid),
              schemas |-> schs,
              raised |-> FALSE, exc |-> NoExc]

\* a register_function that refuses a name that is registered already
RegisterFunctionOnce(fns, schs, fid, parameter_schema) ==
    LET final_schema == GenerateFunctionSchema(Fn(fid), parameter_schema)
    IN  IF ~final_schema.ok
        THEN [functions |-> fns, schemas |-> schs, raised |-> TRUE, exc |-> final_schema.exc]
        ELSE IF DictHas(fns, Fn(fid).name)
        THEN [functions |-> fns, schemas |-> schs, raised |-> TRUE,
              exc |-> Exc("ValueError", <<Fn(fid).name, " is already registered">>)]
        ELSE [functions |-> DictSet(fns, Fn(fid).name, fid),
              schemas |-> DictSet(schs, Fn(fid).name, final_schema.value),
              raised |-> FALSE, exc |-> NoExc]

\* a register_function that makes the new entry the only one
RegisterFunctionReplacingAll(fns, schs, fid, parameter_schema) ==
    LET final_schema == GenerateFunctionSchema(Fn(fid), parameter_schema)
    IN  IF ~final_schema.ok
        THEN [functions |-> fns, schemas |-> schs, raised |-> TRUE, exc |-> final_schema.exc]
        ELSE [functions |-> DictSet(<<>>, Fn(fid).name, fid),
              schemas |-> DictSet(<<>>, Fn(fid).name, final_schema.value),
              raised |-> FALSE, exc |-> NoExc]

\* a register_function that stores the callable and leaves the schema out
RegisterFunctionWithoutSchema(fns, schs, fid, parameter_schema) ==
    LET final_schema == GenerateFunctionSchema(Fn(fid), parameter_schema)
    IN  IF ~final_schema.ok
        THEN [functions |-> fns, schemas |-> schs, raised |-> TRUE, exc |-> final_schema.exc]
        ELSE [functions |-> DictSet(fns, Fn(fid).name, fid),
              schemas |-> schs,
              raised |-> FALSE, exc |-> NoExc]

\* register_function: the two dicts after it, and what it raised
RegisterFunction(fns, schs, fid, parameter_schema) ==
    LET final_schema == GenerateFunctionSchema(Fn(fid), parameter_schema)
    IN  IF ~final_schema.ok
        THEN [functions |-> fns, schemas |-> schs, raised |-> TRUE, exc |-> final_schema.exc]
        ELSE [functions |-> DictSet(fns, Fn(fid).name, fid),
              schemas |-> DictSet(schs, Fn(fid).name, final_schema.value),
              raised |-> FALSE, exc |-> NoExc]

\* register(function, parameter_schema), between the steps of the coroutines
Register(fid, parameter_schema) ==
    /\ nregs < MaxRegs
    /\ \E r \in {RegisterFunction(functions, schemas, fid, parameter_schema)} :
           /\ functions' = r.functions
           /\ schemas' = r.schemas
           /\ regResult' = [done |-> TRUE, function |-> fid,
                            parameter_schema |-> parameter_schema,
                            raised |-> r.raised, exc |-> r.exc]
           /\ regLog' = IF r.raised THEN regLog
                        ELSE Append(regLog, [name |-> Fn(fid).name, function |-> fid,
                                             parameter_schema |-> parameter_schema])
    /\ nregs' = nregs + 1
    /\ UNCHANGED callVars
    /\ UNCHANGED restVars

\* tool(func), lines 386-393: register(func) without a parameter_schema
Tool(fid) ==
    /\ nregs < MaxTools
    /\ Register(fid, None)

\* a lookup that answers an unknown name with the first registered callable
GetOrFirst(fns, function_name) ==
    IF DictHas(fns, function_name) \/ fns = <<>>
    THEN DictGet(fns, function_name)
    ELSE fns[1].v

\* FunctionRegistry.get / __contains__ / get_schema / function_definitions
Get(fns, function_name) == DictGet(fns, function_name)
Contains(fns, name) == DictHas(fns, name)
GetSchema(schs, function_name) == DictGet(schs, function_name)
FunctionDefinitions(schs) == DictValues(schs)

\* get_registered_tools: one tool_spec per definition, in the dict's order
GetRegisteredTools(schs) ==
    [i \in 1..Len(FunctionDefinitions(schs)) |->
        [name |-> FunctionDefinitions(schs)[i].name,
         description |-> FunctionDefinitions(schs)[i].description,
         parameters |-> FunctionDefinitions(schs)[i].parameters]]

\* -------------------------------------------------------------------- calls
\* One run of a coroutine's code: the locals it leaves, the phases it passed,
\* whether it entered the callable, and either the await it stopped at
\* (awaiting) or what call() returned or raised (result).
Ran(fid, args, phases, entered, awaiting, result) ==
    [function |-> fid, prepared |-> args, path |-> phases, entered |-> entered,
     awaiting |-> awaiting, result |-> result]

\* the phase a finished body leaves the call in
Executed(r) == IF r.ok THEN "ExecutedOk" ELSE "ExecutedFailed"

\* lines 325-329: a coroutine function is awaited and suspends the call at
\* line 326, any other function runs to its end in place
InvokeFunction(fid, args) ==
    IF Fn(fid).isAsync
    THEN Ran(fid, Built(args), <<"Requested", "Resolved", "ArgsBuilt">>,
             TRUE, TRUE, Ok(PyStr("")))
    ELSE LET r == RunBody(Fn(fid), args)
         IN  Ran(fid, Built(args), <<"Requested", "Resolved", "ArgsBuilt", Executed(r)>>,
                 TRUE, FALSE, r)

\* a call() that enters the callable although its arguments were refused
CallEnteringEarly(fns, name, arguments) ==
    IF name = None \/ DictGet(fns, name) = None THEN
        Ran(None, NotBuilt, <<"Requested", "Rejected">>, FALSE, FALSE,
            Raise(Exc("UnknownFunctionError", <<"Function ", name, " is not registered">>)))
    ELSE
        LET fid == DictGet(fns, name)
            args == ExtractArguments(name, Fn(fid), arguments)
        IN  IF ~args.ok
            THEN Ran(fid, NotBuilt, <<"Requested", "Resolved", "ArgsRejected">>,
                     TRUE, FALSE, args)
            ELSE InvokeFunction(fid, args.value)

\* FunctionRegistry.call(name, arguments), lines 310-329, from its start to
\* its first suspension point or its end
Call(fns, name, arguments) ==
    IF name = None THEN
        Ran(None, NotBuilt, <<"Requested", "Rejected">>, FALSE, FALSE,
            Raise(Exc("UnknownFunctionError", <<"Function name must be provided">>)))
    ELSE IF Get(fns, name) = None THEN
        Ran(None, NotBuilt, <<"Requested", "Rejected">>, FALSE, FALSE,
            Raise(Exc("UnknownFunctionError", <<"Function ", name, " is not registered">>)))
    ELSE
        LET fid == Get(fns, name)
            args == ExtractArguments(name, Fn(fid), arguments)
        IN  IF ~args.ok
            THEN Ran(fid, NotBuilt, <<"Requested", "Resolved", "ArgsRejected">>,
                     FALSE, FALSE, args)
            ELSE InvokeFunction(fid, args.value)

\* a loop that a call waiting for its callable keeps to itself
CanStartBlocking(c) ==
    /\ pc[c] = "idle"
    /\ \A d \in CallIds : d < c => pc[d] # "idle"
    /\ \A d \in CallIds : pc[d] # "suspended"

\* The event loop can start the coroutine of call c: calls are numbered in
\* the order they are dispatched, and a call suspended at its await does not
\* hold the loop.
CanStart(c) ==
    /\ pc[c] = "idle"
    /\ \A d \in CallIds : d < c => pc[d] # "idle"

\* the frame of call c after its first run: locals, phases, outcome so far
Started(c, toolName, kwargs_string, ran) ==
    /\ call' = [call EXCEPT ![c] = [name |-> toolName, arguments |-> kwargs_string]]
    /\ function' = [function EXCEPT ![c] = ran.function]
    /\ prepared' = [prepared EXCEPT ![c] = ran.prepared]
    /\ path' = [path EXCEPT ![c] = ran.path]
    /\ invoked' = [invoked EXCEPT ![c] = IF ran.entered THEN <<ran.function>> ELSE <<>>]
    /\ pc' = [pc EXCEPT ![c] = IF ran.awaiting THEN "suspended" ELSE "done"]
    /\ outcome' = [outcome EXCEPT ![c] =
                      IF ran.awaiting THEN Pending ELSE OutcomeOf(toolName, ran.result)]

\* a dispatch that drops the entry of a tool whose call failed
DispatchEvicting(c, toolName, kwargs_string) ==
    /\ CanStart(c)
    /\ \E ran \in {Call(functions, toolName, kwargs_string)} :
           /\ Started(c, toolName, kwargs_string, ran)
           /\ functions' = IF ~ran.awaiting /\ ~ran.result.ok
                           THEN SelectSeq(functions, LAMBDA item : item.k # toolName)
                           ELSE functions
    /\ UNCHANGED <<schemas, nregs, regResult, regLog>>
    /\ UNCHANGED restVars

\* run_registered_tool(toolName, kwargs_string) is dispatched and runs until
\* call() suspends or ends
Dispatch(c, toolName, kwargs_string) ==
    /\ CanStart(c)
    /\ \E ran \in {Call(functions, toolName, kwargs_string)} :
           Started(c, toolName, kwargs_string, ran)
    /\ UNCHANGED registryVars
    /\ UNCHANGED restVars

\* an awaited callable that never completes
ResumeNever(c) ==
    /\ pc[c] = "suspended"
    /\ UNCHANGED vars

\* a resumption that looks the name up again and runs what it finds
ResumeLookingUpAgain(c) ==
    /\ pc[c] = "suspended"
    /\ \E r \in {RunBody(Fn(Get(functions, call[c].name)), prepared[c].args)} :
           /\ outcome' = [outcome EXCEPT ![c] = OutcomeOf(call[c].name, r)]
           /\ path' = [path EXCEPT ![c] = Append(@, Executed(r))]
    /\ pc' = [pc EXCEPT ![c] = "done"]
    /\ UNCHANGED <<call, function, prepared, invoked>>
    /\ UNCHANGED registryVars
    /\ UNCHANGED restVars

\* the awaited coroutine completes: call() resumes after line 326 and ends
Resume(c) ==
    /\ pc[c] = "suspended"
    /\ \E r \in {RunBody(Fn(function[c]), prepared[c].args)} :
           /\ outcome' = [outcome EXCEPT ![c] = OutcomeOf(call[c].name, r)]
           /\ path' = [path EXCEPT ![c] = Append(@, Executed(r))]
    /\ pc' = [pc EXCEPT ![c] = "done"]
    /\ UNCHANGED <<call, function, prepared, invoked>>
    /\ UNCHANGED registryVars
    /\ UNCHANGED restVars

Next ==
    \/ \E fid \in Registrable : Tool(fid)
    \/ \E c \in CallIds, n \in ToolNames, p \in Payloads : Dispatch(c, n, p)
    \/ \E c \in CallIds : Resume(c)

\* tools are registered and called
Spec == Init /\ [][Next]_vars

NextRegistry == \E fid \in CallableIds, ps \in ParameterSchemas : Register(fid, ps)

\* the registry alone: registrations with and without a parameter_schema
SpecRegistry == Init /\ [][NextRegistry]_vars

\* one call at a time, on a registry of tools with every kind of result
NextTools ==
    \/ \E fid \in ToolBox : Tool(fid)
    \/ \E n \in ToolBoxNames, p \in AllPayloads : Dispatch(1, n, p)
    \/ Resume(1)

SpecTools == Init /\ [][NextTools]_vars

\* every awaited callable completes and the event loop resumes its call
FairSpecTools == SpecTools /\ WF_vars(Resume(1))

\* ------------------------------------------------- registering a collection
\* the callables a collection is made of
BatchIds == {"f_add", "f_job", "f_greet", "f_nodoc", "f_noann"}

\* the collections of at most n callables
Batches(n) == UNION {[1..k -> BatchIds] : k \in 1..n}

\* register_functions, lines 299-300: register each function in turn; the
\* first exception leaves the loop and the method. The result holds the two
\* dicts, the registrations that returned, and the last registration made.
RECURSIVE RegisterEach(_, _, _, _, _)
RegisterEach(fns, schs, log, made, todo) ==
    IF todo = <<>>
    THEN [functions |-> fns, schemas |-> schs, log |-> log, made |-> made,
          last |-> NoRegistration]
    ELSE LET r == RegisterFunction(fns, schs, Head(todo), None)
             result == [done |-> TRUE, function |-> Head(todo),
                        parameter_schema |-> None, raised |-> r.raised, exc |-> r.exc]
         IN  IF r.raised
             THEN [functions |-> r.functions, schemas |-> r.schemas, log |-> log,
                   made |-> made + 1, last |-> result]
             ELSE IF Tail(todo) = <<>>
             THEN [functions |-> r.functions, schemas |-> r.schemas,
                   log |-> Append(log, [name |-> Fn(Head(todo)).name,
                                        function |-> Head(todo),
                                        parameter_schema |-> None]),
                   made |-> made + 1, last |-> result]
             ELSE RegisterEach(r.functions, r.schemas,
                               Append(log, [name |-> Fn(Head(todo)).name,
                                            function |-> Head(todo),
                                            parameter_schema |-> None]),
                               made + 1, Tail(todo))

\* register_functions(functions) with a list of callables
RegisterFunctions(fs) ==
    /\ nregs + Len(fs) <= MaxRegs
    /\ \E r \in {RegisterEach(functions, schemas, regLog, 0, fs)} :
          /\ functions' = r.functions
          /\ schemas' = r.schemas
          /\ regLog' = r.log
          /\ regResult' = r.last
          /\ nregs' = nregs + r.made
    /\ batch' = fs
    /\ UNCHANGED callVars
    /\ UNCHANGED <<writing, seen, started, patchVars, bootVars>>

NextBatch == \E fs \in Batches(MaxRegs) : RegisterFunctions(fs)

\* collections of callables are registered
SpecBatch == Init /\ [][NextBatch]_vars

\* ------------------------------------------- a registration, line by line
\* a loop that lets a reader run wherever the writer stands
LoopIdleAnywhere == TRUE

\* The event loop can run a reader: register_function is a plain function
\* without an await, so once entered it runs to its return before the loop
\* gives any coroutine a turn.
LoopIdle == ~writing.active

\* register_function, lines 285-287: the schema is generated and the
\* callable stored; a failure to generate ends the registration
BeginRegister(fid, parameter_schema) ==
    /\ ~writing.active
    /\ nregs < MaxRegs
    /\ \E final_schema \in {GenerateFunctionSchema(Fn(fid), parameter_schema)} :
          IF ~final_schema.ok
          THEN /\ regResult' = [done |-> TRUE, function |-> fid,
                                parameter_schema |-> parameter_schema,
                                raised |-> TRUE, exc |-> final_schema.exc]
               /\ nregs' = nregs + 1
               /\ UNCHANGED <<functions, writing>>
          ELSE /\ functions' = DictSet(functions, Fn(fid).name, fid)
               /\ writing' = [active |-> TRUE, function |-> fid,
                              parameter_schema |-> parameter_schema]
               /\ UNCHANGED <<regResult, nregs>>
    /\ UNCHANGED <<schemas, regLog, seen>>
    /\ UNCHANGED callVars
    /\ UNCHANGED otherVars

\* register_function, lines 288-290: the schema is stored and returned
EndRegister ==
    /\ writing.active
    /\ schemas' = DictSet(schemas, Fn(writing.function).name,
                          GenerateFunctionSchema(Fn(writing.function),
                                                 writing.parameter_schema).value)
    /\ regResult' = [done |-> TRUE, function |-> writing.function,
                     parameter_schema |-> writing.parameter_schema,
                     raised |-> FALSE, exc |-> NoExc]
    /\ regLog' = Append(regLog, [name |-> Fn(writing.function).name,
                                 function |-> writing.function,
                                 parameter_schema |-> writing.parameter_schema])
    /\ nregs' = nregs + 1
    /\ writing' = NoWrite
    /\ UNCHANGED <<functions, seen>>
    /\ UNCHANGED callVars
    /\ UNCHANGED otherVars

\* a reader coroutine gets its turn and looks a name up in both views and in
\* the listing: get(name), get_schema(name), get_registered_tools()
Observe(name) ==
    /\ LoopIdle
    /\ seen' = [name |-> name,
                function |-> Get(functions, name),
                hasSchema |-> DictHas(schemas, name),
                schema |-> IF DictHas(schemas, name) THEN GetSchema(schemas, name)
                           ELSE NoDescriptor,
                listed |-> \E i \in 1..Len(GetRegisteredTools(schemas)) :
                              GetRegisteredTools(schemas)[i].name = name]
    /\ UNCHANGED <<registryVars, writing>>
    /\ UNCHANGED callVars
    /\ UNCHANGED otherVars

NextWriter ==
    \/ \E fid \in Registrable \cup {"f_nodoc"}, ps \in ParameterSchemas :
          BeginRegister(fid, ps)
    \/ EndRegister
    \/ \E n \in ToolNames : Observe(n)

\* registrations line by line, with readers on the same event loop
SpecWriter == Init /\ [][NextWriter]_vars

\* ------------------------------------------------------ a call, line by line
\* The event loop is free: the coroutine of a call that has started runs on,
\* line by line, until it awaits (line 326) or ends, and gives no other
\* code a turn before that.
LoopFree == \A c \in CallIds : pc[c] \notin {"resolved", "built"}

\* call(), lines 312-320: the name is looked up and bound to function
Lookup(c, toolName, kwargs_string) ==
    /\ CanStart(c)
    /\ LoopFree
    /\ started' = [started EXCEPT ![c] = IF toolName = None THEN None
                                         ELSE Get(functions, toolName)]
    /\ IF toolName = None \/ Get(functions, toolName) = None
       THEN \E ran \in {Call(functions, toolName, kwargs_string)} :
               Started(c, toolName, kwargs_string, ran)
       ELSE /\ call' = [call EXCEPT ![c] = [name |-> toolName,
                                            arguments |-> kwargs_string]]
            /\ function' = [function EXCEPT ![c] = Get(functions, toolName)]
            /\ path' = [path EXCEPT ![c] = <<"Requested", "Resolved">>]
            /\ pc' = [pc EXCEPT ![c] = "resolved"]
            /\ UNCHANGED <<prepared, outcome, invoked>>
    /\ UNCHANGED registryVars
    /\ UNCHANGED <<writing, seen, batch, patchVars, bootVars>>

\* call(), line 323: the arguments are built for the bound function
BuildArguments(c) ==
    /\ pc[c] = "resolved"
    /\ \E args \in {ExtractArguments(call[c].name, Fn(function[c]),
                                      call[c].arguments)} :
          IF ~args.ok
          THEN /\ path' = [path EXCEPT ![c] = Append(@, "ArgsRejected")]
               /\ outcome' = [outcome EXCEPT ![c] = OutcomeOf(call[c].name, args)]
               /\ pc' = [pc EXCEPT ![c] = "done"]
               /\ UNCHANGED prepared
          ELSE /\ path' = [path EXCEPT ![c] = Append(@, "ArgsBuilt")]
               /\ prepared' = [prepared EXCEPT ![c] = Built(args.value)]
               /\ pc' = [pc EXCEPT ![c] = "built"]
               /\ UNCHANGED outcome
    /\ UNCHANGED <<call, function, invoked>>
    /\ UNCHANGED registryVars
    /\ UNCHANGED restVars

\* call(), lines 325-329: the bound function is entered; a coroutine
\* function suspends the call at its await, any other runs to its end
Enter(c) ==
    /\ pc[c] = "built"
    /\ \E ran \in {InvokeFunction(function[c], prepared[c].args)} :
          /\ invoked' = [invoked EXCEPT ![c] = <<ran.function>>]
          /\ path' = [path EXCEPT ![c] = ran.path]
          /\ pc' = [pc EXCEPT ![c] = IF ran.awaiting THEN "suspended" ELSE "done"]
          /\ outcome' = [outcome EXCEPT ![c] =
                IF ran.awaiting THEN Pending ELSE OutcomeOf(call[c].name, ran.result)]
    /\ UNCHANGED <<call, function, prepared>>
    /\ UNCHANGED registryVars
    /\ UNCHANGED restVars

\* tool(function) gets its turn on the event loop
ToolStep(fid) ==
    /\ LoopFree
    /\ Tool(fid)

NextSteps ==
    \/ \E fid \in Registrable : ToolStep(fid)
    \/ \E n \in ToolNames, p \in Payloads : Lookup(1, n, p)
    \/ BuildArguments(1)
    \/ Enter(1)
    \/ Resume(1)

\* a call line by line, with registrations on the same event loop
SpecSteps == Init /\ [][NextSteps]_vars

\* an awaited callable completes: the event loop resumes every ready coroutine
FairSpec == Spec /\ \A c \in CallIds : WF_vars(Resume(c))

\* ------------------------------------------------------ interrupt patches
\* what one time.sleep or input call did: the function the attribute was
\* bound to, the function that did the sleeping, the chunks slept, the end
Use(entered, callee, chunks, result) ==
    [entered |-> entered, callee |-> callee, chunks |-> chunks, result |-> result]

\* _interrupt_aware_sleep(duration) with duration d chunks long and the
\* interrupt check raising at its k-th run (0: never)
InterruptAwareSleep(orig, d, k) ==
    LET chunks == IF k = 0 THEN d ELSE k - 1 IN
    IF chunks = 0
    THEN Use("_interrupt_aware_sleep", None, 0,
             IF k = 0 THEN "returned" ELSE "KeyboardInterrupt")
    ELSE IF orig = None
    THEN Use("_interrupt_aware_sleep", None, 0, "TypeError")
    ELSE IF orig = "_interrupt_aware_sleep"
    THEN Use("_interrupt_aware_sleep", orig, 0, "RecursionError")
    ELSE Use("_interrupt_aware_sleep", orig, chunks,
             IF k = 0 THEN "returned" ELSE "KeyboardInterrupt")

\* _store_original_functions that stores at every call
StoreOriginalFunctionsAlways(sleep, input, osleep, oinput) ==
    [original_sleep |-> sleep, original_input |-> input]

\* _store_original_functions
StoreOriginalFunctions(sleep, input, osleep, oinput) ==
    [original_sleep |-> IF osleep = None THEN sleep ELSE osleep,
     original_input |-> IF oinput = None THEN input ELSE oinput]

\* setup_interrupt_patches: store, install the signal handler, patch
SetupInterruptPatches ==
    /\ nsetups < MaxSetups
    /\ \E st \in {StoreOriginalFunctions(time_sleep, builtins_input,
                                          original_sleep, original_input)} :
          /\ original_sleep' = st.original_sleep
          /\ original_input' = st.original_input
    /\ time_sleep' = "_interrupt_aware_sleep"
    /\ builtins_input' = "_interrupt_aware_input"
    /\ nsetups' = nsetups + 1
    /\ UNCHANGED <<uses, registryVars, callVars, writing, seen, started, batch, bootVars>>

\* user code calls time.sleep(duration)
Sleep(d, k) ==
    /\ Len(uses) < MaxUses
    /\ uses' = Append(uses,
          IF time_sleep = "time.sleep"
          THEN Use("time.sleep", "time.sleep", d, "returned")
          ELSE InterruptAwareSleep(original_sleep, d, k))
    /\ UNCHANGED <<time_sleep, builtins_input, original_sleep, original_input,
                   nsetups, registryVars, callVars, writing, seen, started, batch,
                   bootVars>>

\* user code calls input(prompt)
Input ==
    /\ Len(uses) < MaxUses
    /\ uses' = Append(uses,
          IF builtins_input = "builtins.input"
          THEN Use("builtins.input", "builtins.input", 0, "returned line")
          ELSE Use("_interrupt_aware_input", None, 0, "returned empty"))
    /\ UNCHANGED <<time_sleep, builtins_input, original_sleep, original_input,
                   nsetups, registryVars, callVars, writing, seen, started, batch,
                   bootVars>>

NextPatches ==
    \/ SetupInterruptPatches
    \/ \E d \in 0..MaxChunks : \E k \in 0..d : Sleep(d, k)
    \/ Input

\* the interrupt patches are set up, and user code sleeps and reads input
SpecPatches == Init /\ [][NextPatches]_vars

\* ------------------------------------------------------ package bootstrap
\* critical_packages of bootstrap_micropip_packages
CriticalPackages == <<"pydantic", "pandas", "numpy", "matplotlib">>

\* background_packages of _start_background_package_loading
BackgroundPackages ==
    <<"seaborn", "requests", "scipy", "sympy", "scikit-learn",
      "beautifulsoup4", "pillow">>

\* a _start_background_package_loading that does not look at the flag
StartBackgroundUnguarded(flag, tasks) ==
    [started |-> TRUE, created |-> tasks \o BackgroundPackages]

\* _start_background_package_loading: no await stands between the test of
\* the flag, its assignment and the create_task calls
StartBackgroundPackageLoading(flag, tasks) ==
    IF flag
    THEN [started |-> flag, created |-> tasks]
    ELSE [started |-> TRUE, created |-> tasks \o BackgroundPackages]

\* bootstrap_micropip_packages runs to its first await micropip.install
BootstrapStart(b) ==
    /\ bpc[b] = 0
    /\ bpc' = [bpc EXCEPT ![b] = 1]
    /\ UNCHANGED <<critical_packages_loaded, background_loading_started,
                   loaded_packages, created, finished>>
    /\ UNCHANGED <<registryVars, callVars, writing, seen, started, batch, patchVars>>

\* the awaited install of a critical package returns (ok) or raises; the
\* coroutine runs on to its next await, or past the loop to its return
InstallReturns(b, ok) ==
    /\ bpc[b] \in 1..Len(CriticalPackages)
    /\ loaded_packages' =
          IF ok THEN loaded_packages \cup {CriticalPackages[bpc[b]]}
                ELSE loaded_packages
    /\ IF bpc[b] < Len(CriticalPackages)
       THEN /\ bpc' = [bpc EXCEPT ![b] = bpc[b] + 1]
            /\ UNCHANGED <<critical_packages_loaded,
                           background_loading_started, created>>
       ELSE /\ bpc' = [bpc EXCEPT ![b] = Len(CriticalPackages) + 1]
            /\ critical_packages_loaded' = TRUE
            /\ \E st \in {StartBackgroundPackageLoading(
                               background_loading_started, created)} :
                  /\ background_loading_started' = st.started
                  /\ created' = st.created
    /\ UNCHANGED finished
    /\ UNCHANGED <<registryVars, callVars, writing, seen, started, batch, patchVars>>

\* _start_background_package_loading is awaited on its own
StartBackground ==
    /\ \E st \in {StartBackgroundPackageLoading(
                       background_loading_started, created)} :
          /\ background_loading_started' = st.started
          /\ created' = st.created
    /\ UNCHANGED <<critical_packages_loaded, loaded_packages, bpc, finished>>
    /\ UNCHANGED <<registryVars, callVars, writing, seen, started, batch, patchVars>>

\* load_package_background: the install of task i returns (ok) or raises
BackgroundInstallReturns(i, ok) ==
    /\ i \in 1..Len(created)
    /\ i \notin finished
    /\ Cardinality(finished) < MaxFinished
    /\ finished' = finished \cup {i}
    /\ loaded_packages' =
          IF ok THEN loaded_packages \cup {created[i]} ELSE loaded_packages
    /\ UNCHANGED <<critical_packages_loaded, background_loading_started,
                   bpc, created>>
    /\ UNCHANGED <<registryVars, callVars, writing, seen, started, batch, patchVars>>

\* is_package_loaded
IsPackageLoaded(package_name) == package_name \in loaded_packages

\* are_critical_packages_loaded
AreCriticalPackagesLoaded == critical_packages_loaded

NextBoot ==
    \/ \E b \in BootIds : BootstrapStart(b)
    \/ \E b \in BootIds : \E ok \in BOOLEAN : InstallReturns(b, ok)
    \/ StartBackground
    \/ \E i \in 1..(MaxBoots + 1) * Len(BackgroundPackages) :
          \E ok \in BOOLEAN : BackgroundInstallReturns(i, ok)

\* the runtime's packages are bootstrapped
SpecBoot == Init /\ [][NextBoot]_vars

\* ------------------------------------------------------------ the properties
\* text occurs in msg: the fragments of text are consecutive fragments of msg
HasText(msg, text) ==
    \E i \in 0..(Len(msg) - Len(text)) :
        \A j \in 1..Len(text) : msg[i + j] = text[j]

\* a registration under this name has returned
Registered(name) == \E i \in 1..Len(regLog) : regLog[i].name = name

\* the three failure kinds a caller of run_registered_tool can tell apart
IsUnknownFunctionError(e) == e.cls = "ToolNotFoundError"
IsArgumentError(e) == e.cls = "FunctionArgumentError"
IsExecutionError(e) ==
    /\ e.cls = "Exception"
    /\ HasText(e.msg, <<"' execution failed with error: ">>)

\* the trace text an execution error carries after its message
TraceText(e) ==
    IF \E i \in 1..Len(e.msg) : e.msg[i] = "Python traceback:"
    THEN SubSeq(e.msg, 1 + (CHOOSE i \in 1..Len(e.msg) : e.msg[i] = "Python traceback:"),
                Len(e.msg))
    ELSE <<>>

\* call c was dispatched in this step
Dispatched(c) == pc[c] = "idle" /\ pc'[c] # "idle"

\* C1: a call whose name has no registry entry when it is looked up fails with
\* the unknown-function kind and enters no callable, whatever its payload is.
C1_UnknownNameRejected ==
    [][\A c \in CallIds :
         (Dispatched(c) /\ ~Registered(call'[c].name))
           => /\ pc'[c] = "done"
              /\ outcome'[c].tag = "Failure"
              /\ IsUnknownFunctionError(outcome'[c].exc)
              /\ invoked'[c] = <<>>]_vars

\* an unknown name was called with a malformed payload while tools were registered
C1_Witness ==
    \E c \in CallIds :
        /\ pc[c] = "done"
        /\ ~Registered(call[c].name)
        /\ call[c].arguments = "{bad"
        /\ functions # <<>>
        /\ IsUnknownFunctionError(outcome[c].exc)

\* the parameters a call must supply: no default, and not Optional
RequiredParams(f) ==
    {f.params[i].name : i \in {j \in 1..Len(f.params) :
        ~f.params[j].hasDefault /\ ~IsOptionalType(f.params[j].annotation)}}

\* the payload stands for a JSON object (absent and empty stand for {})
IsObjectPayload(arguments) ==
    \/ arguments = None
    \/ arguments = ""
    \/ (JsonLoads(arguments).ok /\ JsonLoads(arguments).value.t = "dict")

PayloadItems(arguments) ==
    IF arguments = None \/ arguments = "" THEN EmptyItems
    ELSE JsonLoads(arguments).value.items

\* the required parameters the payload leaves out or gives as null
MissingRequired(f, arguments) ==
    {n \in RequiredParams(f) : ItemsGet(PayloadItems(arguments), n).t = "NoneType"}

\* C2: a call on a registered entry whose payload lacks a required parameter,
\* or gives it as null, fails with the argument-validation error naming that
\* parameter, and the callable is not entered.
C2_MissingRequiredRejected ==
    \A c \in CallIds :
        (/\ pc[c] # "idle"
         /\ function[c] # None
         /\ IsObjectPayload(call[c].arguments)
         /\ MissingRequired(Fn(function[c]), call[c].arguments) # {})
          => /\ pc[c] = "done"
             /\ outcome[c].tag = "Failure"
             /\ IsArgumentError(outcome[c].exc)
             /\ \E n \in MissingRequired(Fn(function[c]), call[c].arguments) :
                   HasText(outcome[c].exc.msg, <<n>>)
             /\ invoked[c] = <<>>

\* the callable of call c was entered and its body raised
BodyRaised(c) ==
    /\ pc[c] = "done"
    /\ invoked[c] # <<>>
    /\ ~RunBody(Fn(invoked[c][1]), prepared[c].args).ok

\* C3: a call whose callable is entered and raises fails with the
\* execution-error kind, its message holds the original error text and its
\* trace text is not empty.
C3_RaiseIsExecutionError ==
    \A c \in CallIds :
        BodyRaised(c)
          => /\ outcome[c].tag = "Failure"
             /\ IsExecutionError(outcome[c].exc)
             /\ HasText(outcome[c].exc.msg,
                        RunBody(Fn(invoked[c][1]), prepared[c].args).exc.msg)
             /\ TraceText(outcome[c].exc) # <<>>

\* C4: the failure kind tells the phase: unknown function only when the name
\* was not registered at lookup, an argument error only when the coercer
\* rejected the payload before the callable was entered, an execution error
\* whenever the callable was entered and raised, whatever it raised.
C4_KindTellsPhase ==
    \A c \in CallIds :
        (pc[c] = "done" /\ outcome[c].tag = "Failure")
          => /\ IsUnknownFunctionError(outcome[c].exc)
                   => (function[c] = None /\ invoked[c] = <<>>)
             /\ IsArgumentError(outcome[c].exc)
                   => (function[c] # None /\ ~prepared[c].built /\ invoked[c] = <<>>)
             /\ BodyRaised(c) => IsExecutionError(outcome[c].exc)

\* the callable of the last registration that returned under name, or None
LatestRegistered(log, name) ==
    IF \E i \in 1..Len(log) : log[i].name = name
    THEN log[CHOOSE i \in 1..Len(log) :
               /\ log[i].name = name
               /\ \A j \in (i + 1)..Len(log) : log[j].name # name].function
    ELSE None

\* how many items of dict d have this key
EntriesFor(d, key) == Cardinality({i \in 1..Len(d) : d[i].k = key})

\* C5: after any registrations the registry holds at most one entry per name,
\* the one of the latest registration under it, and a call dispatched after a
\* name was registered again enters only the callable registered last.
C5_LastRegistrationWins ==
    [][/\ \A n \in ToolNames :
            /\ EntriesFor(functions', n) <= 1
            /\ EntriesFor(schemas', n) <= 1
            /\ Get(functions', n) = LatestRegistered(regLog', n)
       /\ \A c \in CallIds :
            (Dispatched(c) /\ invoked'[c] # <<>>)
              => invoked'[c] = <<LatestRegistered(regLog, call'[c].name)>>]_vars

\* a name was registered twice with different callables and then called
C5_Witness ==
    \E c \in CallIds :
        /\ Len(regLog) = 2
        /\ regLog[1].name = regLog[2].name
        /\ regLog[1].function # regLog[2].function
        /\ call[c].name = regLog[2].name
        /\ invoked[c] = <<regLog[2].function>>
        /\ Len(functions) = 1

\* C6: a registration that fails leaves the registry as it was: no callable
\* and no descriptor is added or changed, under that name or any other.
C6_FailedRegistrationChangesNothing ==
    [][(nregs' = nregs + 1 /\ regResult'.raised)
         => (functions' = functions /\ schemas' = schemas)]_vars

\* a function without a docstring was refused under a name that is registered
C6_Witness ==
    /\ regResult.done
    /\ regResult.raised
    /\ regResult.exc.msg = <<"Only functions with docstrings can be registered">>
    /\ Contains(functions, "add")
    /\ Len(functions) = 2

\* the names of the tool listing, in its order
ListedNames(schs) ==
    [i \in 1..Len(GetRegisteredTools(schs)) |-> GetRegisteredTools(schs)[i].name]

\* the registered names, each at the place of its first registration
RECURSIVE OrderOfFirst(_)
OrderOfFirst(log) ==
    IF log = <<>> THEN <<>>
    ELSE LET before == OrderOfFirst(SubSeq(log, 1, Len(log) - 1))
             name == log[Len(log)].name
         IN  IF \E i \in 1..Len(before) : before[i] = name
             THEN before
             ELSE Append(before, name)

\* the registered names, each at the place of the registration of its
\* current entry
RECURSIVE OrderOfLatest(_)
OrderOfLatest(log) ==
    IF log = <<>> THEN <<>>
    ELSE Append(SelectSeq(OrderOfLatest(SubSeq(log, 1, Len(log) - 1)),
                          LAMBDA n : n # log[Len(log)].name),
                log[Len(log)].name)

\* C7: the tool listing enumerates the stored entries in the order in which
\* those entries were registered, also after a name was registered again.
C7_ListedInRegistrationOrder == ListedNames(schemas) = OrderOfLatest(regLog)

\* C7 as amended: the tool listing enumerates the stored entries in the order
\* in which their names were first registered; registering a name again
\* replaces its entry in place.
C7_ListedInFirstRegistrationOrder == ListedNames(schemas) = OrderOfFirst(regLog)

\* a name was registered, then another, then the first again
C7_Witness ==
    /\ Len(regLog) = 3
    /\ regLog[1].name = regLog[3].name
    /\ regLog[1].name # regLog[2].name
    /\ regLog[1].function # regLog[3].function
    /\ ListedNames(schemas) = <<regLog[1].name, regLog[2].name>>

\* C8: a non-empty payload that is not a JSON object makes the call fail with
\* the argument-parse error, without entering the callable, whatever the
\* number of parameters of the callable.
C8_NonObjectPayloadRejected ==
    \A c \in CallIds :
        (/\ pc[c] # "idle"
         /\ function[c] # None
         /\ call[c].arguments # None
         /\ call[c].arguments # ""
         /\ ~IsObjectPayload(call[c].arguments))
          => /\ pc[c] = "done"
             /\ outcome[c].tag = "Failure"
             /\ IsArgumentError(outcome[c].exc)
             /\ invoked[c] = <<>>

\* C9: while a call waits for its asynchronous callable, every other call can
\* be dispatched and run without the waiting call resuming first, and the
\* waiting call reaches its own outcome afterwards.
C9_SuspendedCallBlocksNoOther ==
    /\ [](\A c \in CallIds, d \in CallIds :
            (/\ pc[c] = "suspended"
             /\ pc[d] = "idle"
             /\ \A e \in CallIds : e < d => pc[e] # "idle")
              => \A n \in ToolNames, p \in Payloads :
                    ENABLED (Dispatch(d, n, p) /\ pc'[c] = "suspended" /\ pc'[d] # "idle"))
    /\ \A c \in CallIds : (pc[c] = "suspended") ~> (pc[c] = "done")

\* a call was dispatched and succeeded while an earlier call is still waiting
C9_Witness ==
    \E c \in CallIds, d \in CallIds :
        /\ c < d
        /\ pc[c] = "suspended"
        /\ pc[d] = "done"
        /\ outcome[d].tag = "Success"

\* the payload gives every required parameter of f
ValidArguments(f, arguments) ==
    /\ IsObjectPayload(arguments)
    /\ MissingRequired(f, arguments) = {}

\* C10: a call that ends in a failure leaves the registry entries unchanged,
\* and a later call to another registered entry with valid arguments succeeds
\* all the same.
C10_FailedCallLeavesNoMark ==
    /\ [][\A c \in CallIds :
             (pc[c] # "done" /\ pc'[c] = "done" /\ outcome'[c].tag = "Failure")
               => (functions' = functions /\ schemas' = schemas)]_vars
    /\ [](\A c \in CallIds, d \in CallIds :
            (/\ d < c
             /\ pc[d] = "done"
             /\ outcome[d].tag = "Failure"
             /\ pc[c] = "done"
             /\ function[c] # None
             /\ call[c].name # call[d].name
             /\ ValidArguments(Fn(function[c]), call[c].arguments)
             /\ Fn(function[c]).body \in {"sum", "text"})
              => outcome[c].tag = "Success")

\* a tool raised, and a later call to another tool returned its result
C10_Witness ==
    \E c \in CallIds, d \in CallIds :
        /\ d < c
        /\ pc[d] = "done"
        /\ IsExecutionError(outcome[d].exc)
        /\ pc[c] = "done"
        /\ call[c].name # call[d].name
        /\ outcome[c] = Success("5")
        /\ Len(functions) = 2

\* the phases a call can pass, from its request to a terminal phase
LegalPaths ==
    {<<"Requested", "Rejected">>,
     <<"Requested", "Resolved", "ArgsRejected">>,
     <<"Requested", "Resolved", "ArgsBuilt", "ExecutedOk">>,
     <<"Requested", "Resolved", "ArgsBuilt", "ExecutedFailed">>}

\* p is an initial part of q
IsPrefix(p, q) == Len(p) <= Len(q) /\ SubSeq(q, 1, Len(p)) = p

\* C11: every call passes Requested -> (Rejected | Resolved), Resolved ->
\* (ArgsRejected | ArgsBuilt), ArgsBuilt -> (ExecutedOk | ExecutedFailed); a
\* finished call has exactly one outcome and never leaves its terminal phase;
\* the callable is entered at most once, and only after lookup and argument
\* building both succeeded.
C11_CallStateMachine ==
    /\ [](\A c \in CallIds :
            /\ pc[c] = "idle" => (path[c] = <<>> /\ outcome[c] = Pending)
            /\ pc[c] = "suspended"
                  => (path[c] = <<"Requested", "Resolved", "ArgsBuilt">> /\ outcome[c] = Pending)
            /\ pc[c] = "done"
                  => (path[c] \in LegalPaths /\ outcome[c].tag \in {"Success", "Failure"})
            /\ Len(invoked[c]) <= 1
            /\ invoked[c] # <<>>
                  => /\ function[c] # None
                     /\ invoked[c] = <<function[c]>>
                     /\ prepared[c].built
                     /\ IsPrefix(<<"Requested", "Resolved", "ArgsBuilt">>, path[c]))
    /\ [][\A c \in CallIds :
             /\ IsPrefix(path[c], path'[c])
             /\ pc[c] = "done"
                   => /\ pc'[c] = "done"
                      /\ path'[c] = path[c]
                      /\ outcome'[c] = outcome[c]
                      /\ invoked'[c] = invoked[c]]_vars

\* one call was rejected at lookup, another entered its callable, which raised
C11_Witness ==
    \E c \in CallIds, d \in CallIds :
        /\ path[c] = <<"Requested", "Rejected">>
        /\ path[d] = <<"Requested", "Resolved", "ArgsBuilt", "ExecutedFailed">>
        /\ Fn(function[d]).isAsync
        /\ outcome[c].tag = "Failure"
        /\ outcome[d].tag = "Failure"

\* the callable of call c was entered and its body returned a value
BodyReturned(c) ==
    /\ pc[c] = "done"
    /\ invoked[c] # <<>>
    /\ RunBody(Fn(invoked[c][1]), prepared[c].args).ok

\* C12: when the callable returns normally the call succeeds with a string:
\* a str return value unchanged, every other value as JSON text; a normal
\* return never becomes a failed call.
C12_NormalReturnSucceeds ==
    \A c \in CallIds :
        BodyReturned(c)
          => /\ outcome[c].tag = "Success"
             /\ RunBody(Fn(invoked[c][1]), prepared[c].args).value.py = "str"
                   => outcome[c].result
                        = RunBody(Fn(invoked[c][1]), prepared[c].args).value.s

\* every parameter of f carries a type annotation
FullyAnnotated(f) == \A i \in 1..Len(f.params) : f.params[i].annotation # "empty"

\* f has a non-empty description
Described(f) == f.doc # None /\ f.doc # ""

\* f has a name of its own: it is not a lambda and its name is not empty
Named(f) == f.name # "" /\ f.name # "<lambda>"

\* every annotation of f is a type the JSON schema of the model can express
JsonTyped(f) ==
    \A i \in 1..Len(f.params) :
        JsonType(NonNoneArm(f.params[i].annotation)) # "unsupported"

\* C13: for every callable whose parameters are all annotated and whose
\* description is non-empty, registration succeeds and every later tool
\* listing has an entry under the callable's name.
C13_AnnotatedRegisters ==
    /\ (/\ regResult.done
        /\ FullyAnnotated(Fn(regResult.function))
        /\ Described(Fn(regResult.function)))
         => (~regResult.raised
             /\ \E i \in 1..Len(ListedNames(schemas)) :
                   ListedNames(schemas)[i] = Fn(regResult.function).name)
    /\ \A i \in 1..Len(regLog) :
          \E j \in 1..Len(ListedNames(schemas)) : ListedNames(schemas)[j] = regLog[i].name

\* C13 as amended: for every callable that has a name of its own, a non-empty
\* description and parameters all annotated with types that have a JSON
\* schema, registration succeeds and every later tool listing has an entry
\* under the callable's name.
C13_NamedAnnotatedRegisters ==
    /\ (/\ regResult.done
        /\ Named(Fn(regResult.function))
        /\ Described(Fn(regResult.function))
        /\ FullyAnnotated(Fn(regResult.function))
        /\ JsonTyped(Fn(regResult.function)))
         => (~regResult.raised
             /\ \E i \in 1..Len(ListedNames(schemas)) :
                   ListedNames(schemas)[i] = Fn(regResult.function).name)
    /\ \A i \in 1..Len(regLog) :
          \E j \in 1..Len(ListedNames(schemas)) : ListedNames(schemas)[j] = regLog[i].name

\* two annotated callables were registered, and a later registration was refused
C13_Witness ==
    /\ Len(regLog) = 2
    /\ regLog[1].name # regLog[2].name
    /\ nregs = 3
    /\ regResult.raised
    /\ ListedNames(schemas) = <<regLog[1].name, regLog[2].name>>

\* the error extract_model_from_function raises for a parameter without annotation
IsMissingAnnotationError(e) ==
    /\ e.cls = "Exception"
    /\ HasText(e.msg, <<" must have a JSON-serializable type annotation">>)

\* this step is a registration of a named, described callable that has a
\* parameter without annotation
RegistersUnannotated ==
    /\ nregs' = nregs + 1
    /\ Named(Fn(regResult'.function))
    /\ Described(Fn(regResult'.function))
    /\ ~FullyAnnotated(Fn(regResult'.function))

Range(seq) == {seq[i] : i \in 1..Len(seq)}

\* the schema stored by the registration that has just returned
LastSchema == GetSchema(schemas, Fn(regResult.function).name).parameters

\* C15: in a derived descriptor the properties are the parameters, each with
\* the JSON type of its annotation (of the non-null arm for a union with
\* null), and required is exactly the parameters that have no default and
\* are not optional.
C15_RequiredIsNoDefaultNotOptional ==
    (regResult.done /\ ~regResult.raised /\ regResult.parameter_schema = None)
      => /\ Range(LastSchema.required) = RequiredParams(Fn(regResult.function))
         /\ Len(LastSchema.properties) = Len(Fn(regResult.function).params)
         /\ \A i \in 1..Len(LastSchema.properties) :
              /\ LastSchema.properties[i].name = Fn(regResult.function).params[i].name
              /\ LastSchema.properties[i].type
                   = JsonType(NonNoneArm(Fn(regResult.function).params[i].annotation))
              /\ ("default" \in LastSchema.properties[i].has)
                   <=> (LastSchema.properties[i].name
                          \notin RequiredParams(Fn(regResult.function)))

\* (a: int, b: Optional[str], c: str = ...) was registered: only a is required
C15_Witness ==
    /\ regResult.done
    /\ ~regResult.raised
    /\ regResult.function = "f_greet"
    /\ regResult.parameter_schema = None
    /\ LastSchema.required = <<"a">>
    /\ [i \in 1..3 |-> LastSchema.properties[i].type] = <<"integer", "string", "string">>

\* a Union with more than one arm that is not NoneType
IsMultiArmUnion(annotation) == annotation \in {"Union[int, str]"}

\* this step is a registration, without override, of a named and described
\* callable that has a parameter typed as a Union of several non-null types
RegistersMultiArmUnion ==
    /\ nregs' = nregs + 1
    /\ regResult'.parameter_schema = None
    /\ Named(Fn(regResult'.function))
    /\ Described(Fn(regResult'.function))
    /\ \E i \in 1..Len(Fn(regResult'.function).params) :
          IsMultiArmUnion(Fn(regResult'.function).params[i].annotation)

\* C16: registering a callable with a parameter typed as a union of more than
\* one non-null type fails with the unsupported-type error and adds no entry.
C16_MultiArmUnionRefused ==
    [][RegistersMultiArmUnion
         => /\ regResult'.raised
            /\ functions' = functions
            /\ schemas' = schemas]_vars

\* the model-typed parameters of f whose value the payload gives but which
\* the model refuses
RefusedStructured(f, arguments) ==
    {i \in 1..Len(f.params) :
        /\ IsBaseModel(f.params[i].annotation)
        /\ f.params[i].name \in DOMAIN PayloadItems(arguments)
        /\ ~ModelValidate(f.params[i].annotation,
                          PayloadItems(arguments)[f.params[i].name]).ok}

\* C17: when the value of a structured parameter is present in the payload
\* but lacks a required nested field or has a field of the wrong type, the
\* call fails with the argument-validation kind, not the execution-error
\* kind, and the callable is not entered.
C17_StructuredValueValidated ==
    \A c \in CallIds :
        (/\ pc[c] # "idle"
         /\ function[c] # None
         /\ IsObjectPayload(call[c].arguments)
         /\ RefusedStructured(Fn(function[c]), call[c].arguments) # {})
          => /\ pc[c] = "done"
             /\ outcome[c].tag = "Failure"
             /\ IsArgumentError(outcome[c].exc)
             /\ ~IsExecutionError(outcome[c].exc)
             /\ invoked[c] = <<>>

\* the payloads that stand for no arguments
EmptyPayloads == {None, "", "{}"}

\* the argument set call c would have built from payload q
PreparedFrom(c, q) ==
    IF ExtractArguments(call[c].name, Fn(function[c]), q).ok
    THEN Built(ExtractArguments(call[c].name, Fn(function[c]), q).value)
    ELSE NotBuilt

\* the outcome call c would have ended with, had its payload been q
OutcomeFrom(c, q) ==
    IF ExtractArguments(call[c].name, Fn(function[c]), q).ok
    THEN OutcomeOf(call[c].name,
                   RunBody(Fn(function[c]),
                           ExtractArguments(call[c].name, Fn(function[c]), q).value))
    ELSE OutcomeOf(call[c].name, ExtractArguments(call[c].name, Fn(function[c]), q))

\* C18: an absent payload, an empty-string payload and the payload {} are
\* equivalent: a call on a registered entry with one of them builds the same
\* argument set and ends with the same outcome as with each of the others.
C18_EmptyPayloadsEquivalent ==
    \A c \in CallIds :
        (pc[c] = "done" /\ function[c] # None /\ call[c].arguments \in EmptyPayloads)
          => \A q \in EmptyPayloads :
                /\ prepared[c] = PreparedFrom(c, q)
                /\ outcome[c] = OutcomeFrom(c, q)

\* tools with and without parameters were called with an empty-string payload
C18_Witness ==
    \E c \in CallIds :
        /\ pc[c] = "done"
        /\ call[c].arguments = ""
        /\ function[c] = "f_add2"
        /\ prepared[c].built
        /\ prepared[c].args["a"] = JNull

\* C19: registering the same callable with the same arguments twice in a row
\* leaves entries, descriptors and enumeration order as the first
\* registration left them, and the second registration ends as the first did.
C19_ReRegistrationIdempotent ==
    [][(/\ nregs' = nregs + 1
        /\ regResult.done
        /\ regResult'.function = regResult.function
        /\ regResult'.parameter_schema = regResult.parameter_schema)
         => /\ functions' = functions
            /\ schemas' = schemas
            /\ ListedNames(schemas') = ListedNames(schemas)
            /\ regResult' = regResult]_vars

\* a callable was registered twice in a row while another name was registered
C19_Witness ==
    /\ nregs = 3
    /\ Len(regLog) = 3
    /\ regLog[2] = regLog[3]
    /\ regLog[1].name # regLog[2].name
    /\ ListedNames(schemas) = <<regLog[1].name, regLog[2].name>>

\* C20: the registry only grows or overwrites: a name that was registered is
\* reported present by contains and get after every later registration and
\* call; no step removes an entry.
C20_EntriesNeverRemoved ==
    /\ [](\A i \in 1..Len(regLog) :
            /\ Contains(functions, regLog[i].name)
            /\ Get(functions, regLog[i].name) # None
            /\ DictHas(schemas, regLog[i].name))
    /\ [][/\ Len(functions') >= Len(functions)
          /\ \A n \in ToolNames :
               Contains(functions, n)
                 => (Contains(functions', n) /\ Get(functions', n) # None)]_vars

\* two names were registered and a call to the first one failed
C20_Witness ==
    \E c \in CallIds :
        /\ Len(regLog) = 2
        /\ regLog[1].name # regLog[2].name
        /\ pc[c] = "done"
        /\ outcome[c].tag = "Failure"
        /\ call[c].name = regLog[1].name
        /\ Contains(functions, regLog[1].name)
        /\ Contains(functions, regLog[2].name)

\* C21: every descriptor stored in the registry is well formed: its name is
\* not empty and not the name of a lambda, its description is not empty, and
\* its parameters schema has a properties object and a required array, also
\* when the registrant supplied an explicit schema.
C21_StoredDescriptorsWellFormed ==
    \A i \in 1..Len(schemas) :
        /\ schemas[i].v.name # ""
        /\ schemas[i].v.name # "<lambda>"
        /\ schemas[i].v.description # None
        /\ schemas[i].v.description # ""
        /\ {"properties", "required"} \subseteq schemas[i].v.parameters.has
        /\ "title" \notin schemas[i].v.parameters.has

\* a descriptor was stored from an override that had neither properties nor
\* required, next to a derived one
C21_Witness ==
    /\ regResult.done
    /\ ~regResult.raised
    /\ regResult.parameter_schema = "bare"
    /\ LastSchema.properties = <<>>
    /\ {"properties", "required"} \subseteq LastSchema.has
    /\ Len(schemas) = 2

\* the parameter names of the descriptor derived for f
DescriptorParams(f) ==
    {GenerateFunctionSchema(f, None).value.parameters.properties[i].name :
        i \in 1..Len(GenerateFunctionSchema(f, None).value.parameters.properties)}

\* C22: the argument set built for a call has exactly one entry per parameter
\* of the entry's advertised descriptor and no other: a parameter the payload
\* lacks gets null, a payload key that is no descriptor parameter is dropped,
\* and a receiver parameter the schema skips is not passed.
C22_ArgumentsMatchDescriptor ==
    \A c \in CallIds :
        (function[c] # None /\ prepared[c].built)
          => /\ DOMAIN prepared[c].args = DescriptorParams(Fn(function[c]))
             /\ \A n \in DOMAIN prepared[c].args :
                   n \notin DOMAIN PayloadItems(call[c].arguments)
                     => prepared[c].args[n] = JNull

\* the descriptors a registration of callable fid can store
SchemasOf(fid) ==
    {GenerateFunctionSchema(Fn(fid), ps).value : ps \in ParameterSchemas}

\* C23: an overwrite is atomic for readers: no reader sees, for one name, the
\* callable of one registration with the descriptor of another, or the name
\* present in one view (callable lookup, descriptor lookup, listing) and
\* absent from another.
C23_ReadersSeeWholeEntries ==
    /\ (seen.function # None) <=> seen.hasSchema
    /\ seen.hasSchema <=> seen.listed
    /\ seen.hasSchema => seen.schema \in SchemasOf(seen.function)

\* a reader looked a name up after it was overwritten with another callable
C23_Witness ==
    /\ Len(regLog) >= 2
    /\ regLog[1].name = regLog[2].name
    /\ regLog[1].function # regLog[2].function
    /\ seen.name = regLog[2].name
    /\ seen.function = regLog[2].function
    /\ seen.schema \in SchemasOf(regLog[2].function)
    /\ seen.schema \notin SchemasOf(regLog[1].function)

\* callable fid can be registered on its own
RegistrableAlone(fid) == GenerateFunctionSchema(Fn(fid), None).ok

\* the last callable of the collection that is registrable and named name
LastRegistrableIn(fs, name) ==
    fs[CHOOSE i \in 1..Len(fs) :
         /\ RegistrableAlone(fs[i]) /\ Fn(fs[i]).name = name
         /\ \A j \in (i + 1)..Len(fs) :
               ~(RegistrableAlone(fs[j]) /\ Fn(fs[j]).name = name)]

\* C24: when one function of a collection given to register_functions fails
\* registration, every other function of the collection that is registrable
\* on its own ends up registered, before or after the failing one.
C24_BatchRegistersTheRest ==
    \A i \in 1..Len(batch) :
        RegistrableAlone(batch[i])
          => Get(functions, Fn(batch[i]).name) = LastRegistrableIn(batch, Fn(batch[i]).name)

\* C25: under fair scheduling every dispatched call whose callable completes
\* reaches a terminal outcome; the dispatcher waits nowhere but at the await
\* of an asynchronous callable it has entered.
C25_DispatchedCallsTerminate ==
    /\ \A c \in CallIds :
          (pc[c] # "idle")
            ~> (pc[c] = "done" /\ outcome[c].tag \in {"Success", "Failure"})
    /\ [](\A c \in CallIds :
            pc[c] = "suspended"
              => /\ invoked[c] # <<>>
                 /\ Fn(invoked[c][1]).isAsync
                 /\ ENABLED Resume(c))

\* a call waited for its asynchronous callable and then returned its text
C25_Witness ==
    \E c \in CallIds :
        /\ pc[c] = "done"
        /\ invoked[c] # <<>>
        /\ Fn(invoked[c][1]).isAsync
        /\ path[c] = <<"Requested", "Resolved", "ArgsBuilt", "ExecutedOk">>
        /\ outcome[c] = Success("pong")

\* C26: after any number of setup_interrupt_patches calls the stored original
\* sleep and input are the unpatched functions, and a patched time.sleep
\* sleeps through the unpatched one, never through itself.
C26_OriginalsStayUnpatched ==
    /\ original_sleep \in {None, "time.sleep"}
    /\ original_input \in {None, "builtins.input"}
    /\ nsetups > 0 => /\ original_sleep = "time.sleep"
                      /\ original_input = "builtins.input"
                      /\ time_sleep = "_interrupt_aware_sleep"
                      /\ builtins_input = "_interrupt_aware_input"
    /\ \A i \in 1..Len(uses) :
          /\ uses[i].result \notin {"RecursionError", "TypeError"}
          /\ uses[i].chunks > 0 => uses[i].callee = "time.sleep"

\* the patches were set up more than once and a patched sleep then slept
C26_Witness ==
    /\ nsetups > 1
    /\ \E i \in 1..Len(uses) :
          /\ uses[i].entered = "_interrupt_aware_sleep"
          /\ uses[i].chunks > 0
          /\ uses[i].callee = "time.sleep"

\* C27: whenever are_critical_packages_loaded() is true, every critical
\* package is in the loaded-package set.
C27_CriticalFlagMeansLoaded ==
    AreCriticalPackagesLoaded
        => \A i \in 1..Len(CriticalPackages) : IsPackageLoaded(CriticalPackages[i])

\* C30: the background install tasks are created once, by the first
\* _start_background_package_loading to run, and the flag
\* background_loading_started never returns to false.
C30_BackgroundLoadingStartsOnce ==
    [][/\ background_loading_started => background_loading_started'
       /\ created' # created
            => /\ ~background_loading_started
               /\ background_loading_started'
               /\ created = <<>>
               /\ created' = BackgroundPackages]_vars

\* two bootstraps ran to their ends and one set of tasks exists
C30_Witness ==
    /\ \A b \in {1, 2} : bpc[b] = Len(CriticalPackages) + 1
    /\ background_loading_started
    /\ created = BackgroundPackages

\* get_schema(name) returns a descriptor, and the descriptor stored for name
ReturnsDescriptor(schs, name) ==
    \E i \in 1..Len(schs) : schs[i].k = name /\ GetSchema(schs, name) = schs[i].v

\* the elements of the tool listing that carry name
Carriers(schs, name) ==
    {i \in 1..Len(GetRegisteredTools(schs)) : GetRegisteredTools(schs)[i].name = name}

\* C28: the registry's views agree after any registrations and calls:
\* contains(name), get(name) returning a callable, get_schema(name) returning
\* a descriptor and exactly one element of the listing carrying name all hold
\* together or not at all; no two elements of the listing share a name, and
\* every stored descriptor is named by its key.
C28_ViewsAgree ==
    /\ \A name \in ToolBoxNames \cup ToolNames :
          /\ Contains(functions, name) <=> Get(functions, name) # None
          /\ Contains(functions, name) <=> ReturnsDescriptor(schemas, name)
          /\ Cardinality(Carriers(schemas, name))
                = IF Contains(functions, name) THEN 1 ELSE 0
    /\ \A i \in 1..Len(schemas) : schemas[i].v.name = schemas[i].k
    /\ Len(GetRegisteredTools(schemas)) = Len(functions)

\* a name was registered twice, a call of it has ended, and it is listed once
C28_Witness ==
    /\ Len(regLog) = 2
    /\ regLog[1].name = regLog[2].name
    /\ pc[1] = "done"
    /\ call[1].name = regLog[1].name
    /\ Cardinality(Carriers(schemas, regLog[1].name)) = 1

\* C29: a call runs the callable its name stood for when the call started:
\* no registration changes the registry between the lookup and the
\* invocation, the callable entered is the one looked up, and a call
\* resumed after an overwrite ends with the outcome of the callable it
\* entered.
C29_CallRunsCallableOfItsStart ==
    /\ [](\A c \in CallIds :
            /\ pc[c] \in {"resolved", "built", "suspended"}
                 => function[c] = started[c]
            /\ invoked[c] # <<>> => invoked[c] = <<started[c]>>
            /\ (pc[c] = "done" /\ invoked[c] # <<>>)
                 => outcome[c] = OutcomeOf(call[c].name,
                                           RunBody(Fn(started[c]), prepared[c].args)))
    /\ [][(\E c \in CallIds : pc[c] \in {"resolved", "built"})
            => UNCHANGED <<functions, schemas>>]_vars

\* an asynchronous call was suspended, its name was overwritten, and it
\* ended as the callable it had entered
C29_Witness ==
    \E c \in CallIds :
        /\ pc[c] = "done"
        /\ invoked[c] = <<started[c]>>
        /\ Fn(started[c]).isAsync
        /\ Get(functions, call[c].name) # started[c]

====
